---- MODULE Spec2Model ----
(***************************************************************************)
(* Model of tts/index-tts2/app.py: the IndexTTS2 REST gateway.             *)
(*                                                                         *)
(* A string is a sequence of symbols.  A symbol is either one character    *)
(* that is special to the shell (space, quotes, ';', '$') or a run of      *)
(* ordinary characters ("--text", "python", "0").  A byte string is a      *)
(* sequence of integers 0..255.  None is the Python None.                  *)
(***************************************************************************)
EXTENDS Integers, Sequences, FiniteSets, TLC

\* ------------------------------------------------------------------ bounds
MaxLen == 2
MaxSeed == 11
MaxBytes == 3
MaxExit == 2
NumTmpNames == 3

Callers == {1, 2}
TmpNames == 1..NumTmpNames
ExitCodes == (0 - 1)..MaxExit
ByteVals == {77, 250}
BytesUpTo(n) == UNION {[1..k -> ByteVals] : k \in 0..n}

\* ------------------------------------------------------------------ values
None == [t |-> "none"]
S(s) == [t |-> "str", v |-> s]
I(n) == [t |-> "int", v |-> n]

SP == " "
SQ == "'"
DQ == "\""
SEMI == ";"
DOLLAR == "$"
ShellSpecial == {SP, SQ, DQ, SEMI, DOLLAR}

Range(f) == {f[i] : i \in DOMAIN f}

\* Python truthiness of a template value: `if v`.
Truthy(v) ==
  CASE v.t = "none" -> FALSE
    [] v.t = "str" -> v.v # <<>>
    [] v.t = "int" -> v.v # 0

\* int.__str__ for a non-negative integer, most significant digit first.
RECURSIVE Digits(_)
Digits(n) ==
  LET d == n % 10
      ch == CASE d = 0 -> "0" [] d = 1 -> "1" [] d = 2 -> "2" [] d = 3 -> "3"
              [] d = 4 -> "4" [] d = 5 -> "5" [] d = 6 -> "6" [] d = 7 -> "7"
              [] d = 8 -> "8" [] d = 9 -> "9"
  IN IF n < 10 THEN <<ch>> ELSE Append(Digits(n \div 10), ch)

\* str(v)
Str(v) ==
  CASE v.t = "none" -> <<"None">>
    [] v.t = "str" -> v.v
    [] v.t = "int" -> IF v.v < 0 THEN <<"-">> \o Digits(0 - v.v) ELSE Digits(v.v)

\* shlex.quote: a string of safe characters only is returned as is, the
\* empty string becomes '', anything else is wrapped in single quotes with
\* each embedded single quote written as '"'"'.
IsUnsafe(ch) == ch \in ShellSpecial

RECURSIVE EscapeQuotes(_)
EscapeQuotes(s) ==
  IF s = <<>> THEN <<>>
  ELSE (IF Head(s) = SQ THEN <<SQ, DQ, SQ, DQ, SQ>> ELSE <<Head(s)>>)
       \o EscapeQuotes(Tail(s))

\* Quoting that forgets the quotes inside the value.
QuoteNoEscape(s) ==
  IF s = <<>> THEN <<SQ, SQ>>
  ELSE IF \E i \in DOMAIN s : IsUnsafe(s[i])
       THEN <<SQ>> \o s \o <<SQ>>
       ELSE s

Quote(s) ==
  IF s = <<>> THEN <<SQ, SQ>>
  ELSE IF \E i \in DOMAIN s : IsUnsafe(s[i])
       THEN <<SQ>> \o EscapeQuotes(s) \o <<SQ>>
       ELSE s

\* sanitized = {k: shlex.quote(str(v)) if v else "" for k, v in values.items()}
Sanitize(values) ==
  [k \in DOMAIN values |-> IF Truthy(values[k]) THEN Quote(Str(values[k])) ELSE <<>>]

\* A template is the parsed form of the format string: literal text and
\* replacement fields {name}, in order.
Lit(s) == [lit |-> TRUE, s |-> s]
Ph(name) == [lit |-> FALSE, name |-> name]

\* Formatting that renders an unknown field as nothing.
RECURSIVE FormatLenient(_, _)
FormatLenient(template, sanitized) ==
  IF template = <<>> THEN [ok |-> TRUE, s |-> <<>>]
  ELSE [ok |-> TRUE,
        s |-> (IF Head(template).lit THEN Head(template).s
               ELSE IF Head(template).name \in DOMAIN sanitized
               THEN sanitized[Head(template).name] ELSE <<>>)
              \o FormatLenient(Tail(template), sanitized).s]

\* str.format(**sanitized): fields are looked up left to right; the first
\* name that is no key raises KeyError(name).
RECURSIVE Format(_, _)
Format(template, sanitized) ==
  IF template = <<>> THEN [ok |-> TRUE, s |-> <<>>]
  ELSE LET it == Head(template) IN
       IF ~it.lit /\ it.name \notin DOMAIN sanitized
       THEN [ok |-> FALSE, key |-> it.name]
       ELSE LET rest == Format(Tail(template), sanitized) IN
            IF ~rest.ok THEN rest
            ELSE [ok |-> TRUE,
                  s |-> (IF it.lit THEN it.s ELSE sanitized[it.name]) \o rest.s]

\* str.strip()
RECURSIVE LStrip(_)
LStrip(s) == IF s # <<>> /\ Head(s) = SP THEN LStrip(Tail(s)) ELSE s

RECURSIVE RStrip(_)
RStrip(s) ==
  IF s # <<>> /\ s[Len(s)] = SP THEN RStrip(SubSeq(s, 1, Len(s) - 1)) ELSE s

Strip(s) == RStrip(LStrip(s))

\* SubprocessSynthesizer._render_command: the command, or the HTTPException
\* raised for the missing placeholder.
RenderCommand(template, values) ==
  LET r == Format(template, Sanitize(values)) IN
  IF r.ok THEN [ok |-> TRUE, command |-> Strip(r.s)]
  ELSE [ok |-> FALSE, key |-> r.key]

\* /bin/sh reading the command line that subprocess.run(command, shell=True)
\* hands it: words are split at unquoted spaces; '...' keeps every character
\* literal; "..." keeps spaces, ';' and ' literal but still expands $; an
\* unquoted ';' ends the command and starts another; an unquoted or
\* double-quoted '$' starts an expansion; a quote left open is a syntax error.
\* words: the words read, each with its quoting removed.  active: whether
\* the line holds a separator, an expansion or an open quote.
RECURSIVE Lex(_, _, _, _, _, _)
Lex(cmd, mode, cur, inword, words, active) ==
  IF cmd = <<>>
  THEN [words |-> IF inword THEN Append(words, cur) ELSE words,
        active |-> active \/ mode # "none"]
  ELSE LET ch == Head(cmd)
           rest == Tail(cmd)
       IN CASE mode = "sq" ->
                 IF ch = SQ THEN Lex(rest, "none", cur, TRUE, words, active)
                 ELSE Lex(rest, "sq", Append(cur, ch), TRUE, words, active)
            [] mode = "dq" ->
                 IF ch = DQ THEN Lex(rest, "none", cur, TRUE, words, active)
                 ELSE Lex(rest, "dq", Append(cur, ch), TRUE, words,
                          active \/ ch = DOLLAR)
            [] mode = "none" ->
                 CASE ch = SP ->
                        Lex(rest, "none", <<>>, FALSE,
                            IF inword THEN Append(words, cur) ELSE words, active)
                   [] ch = SQ -> Lex(rest, "sq", cur, TRUE, words, active)
                   [] ch = DQ -> Lex(rest, "dq", cur, TRUE, words, active)
                   [] ch = SEMI ->
                        Lex(rest, "none", <<>>, FALSE,
                            IF inword THEN Append(words, cur) ELSE words, TRUE)
                   [] ch = DOLLAR ->
                        Lex(rest, "none", Append(cur, ch), TRUE, words, TRUE)
                   [] OTHER ->
                        Lex(rest, "none", Append(cur, ch), TRUE, words, active)

ShellRead(cmd) == Lex(cmd, "none", <<>>, FALSE, <<>>, FALSE)

\* base64.b64encode(audio_bytes).decode("utf-8"): every three bytes become
\* four 6-bit symbols (written here as their alphabet index 0..63); a final
\* group of one or two bytes is padded with '=' (written 64).
B64Pad == 64

RECURSIVE B64Encode(_)
B64Encode(b) ==
  IF b = <<>> THEN <<>>
  ELSE IF Len(b) = 1
       THEN LET n == b[1] * 65536
            IN <<n \div 262144, (n \div 4096) % 64, B64Pad, B64Pad>>
  ELSE IF Len(b) = 2
       THEN LET n == b[1] * 65536 + b[2] * 256
            IN <<n \div 262144, (n \div 4096) % 64, (n \div 64) % 64, B64Pad>>
  ELSE LET n == b[1] * 65536 + b[2] * 256 + b[3]
       IN <<n \div 262144, (n \div 4096) % 64, (n \div 64) % 64, n % 64>>
          \o B64Encode(SubSeq(b, 4, Len(b)))

\* ------------------------------------------------------------ configuration
\* The default INDEX_TTS_COMMAND_TEMPLATE.
DefaultTemplate ==
  <<Lit(<<"python", SP, "/models/scripts/infer.py", SP, "--text", SP>>), Ph("text"),
    Lit(<<SP, "--output", SP>>), Ph("output"),
    Lit(<<SP, "--reference_audio", SP>>), Ph("reference_audio"),
    Lit(<<SP, "--speaker", SP>>), Ph("speaker"),
    Lit(<<SP, "--seed", SP>>), Ph("seed")>>

\* Other values the environment variable may hold: a template that wraps a
\* field in double quotes, one that uses a field only `extra` can supply, and
\* one that renders to nothing when the speaker is absent.
QuotedTemplate ==
  <<Lit(<<"synth", SP, "--text", SP, DQ>>), Ph("text"),
    Lit(<<DQ, SP, "--output", SP>>), Ph("output")>>

ExtraTemplate ==
  <<Lit(<<"synth", SP>>), Ph("text"), Lit(<<SP, "--lang", SP>>), Ph("lang"),
    Lit(<<SP, "--output", SP>>), Ph("output"), Lit(<<SP>>), Ph("voice")>>

BareTemplate == <<Lit(<<SP>>), Ph("speaker"), Lit(<<SP>>)>>

Templates == {DefaultTemplate, QuotedTemplate, ExtraTemplate, BareTemplate}

BuiltIns == {"text", "output", "reference_audio", "speaker", "seed"}

\* ---------------------------------------------------------------- requests
Alphabet == {"a", SP, SQ, DQ, SEMI, DOLLAR}
Strings(n) == UNION {[1..k -> Alphabet] : k \in 0..n}

NoExtra == [k \in {} |-> <<>>]

\* A JSON body as pydantic reads it into TTSRequest; None marks a field the
\* body leaves out (output_format and extra then take their defaults).
DefaultBody ==
  [text |-> S(<<"hello">>), reference_audio |-> None, speaker |-> None,
   seed |-> None, output_format |-> <<"wav">>, extra |-> NoExtra]

Extras ==
  {[lang |-> <<"en">>], [lang |-> <<>>], [lang |-> <<"a", SP, DOLLAR>>],
   [lang |-> <<"en">>, voice |-> <<SEMI>>],
   [seed |-> <<"7">>], [seed |-> <<>>], [text |-> <<>>],
   [output |-> <<"/elsewhere/out.wav">>]}

SmallBodies ==
  {DefaultBody,
   [DefaultBody EXCEPT !.extra = [lang |-> <<"en">>, voice |-> <<"v">>]],
   [DefaultBody EXCEPT !.text = None]}

RichBodies ==
  {[DefaultBody EXCEPT !.text = t] : t \in {None} \cup {S(s) : s \in Strings(MaxLen)}}
  \cup {[DefaultBody EXCEPT !.reference_audio = S(s)] : s \in Strings(1)}
  \cup {[DefaultBody EXCEPT !.speaker = S(s)] : s \in Strings(1)}
  \cup {[DefaultBody EXCEPT !.seed = I(n)] : n \in (0 - MaxSeed)..MaxSeed}
  \cup {[DefaultBody EXCEPT !.output_format = s] : s \in Strings(1)}
  \cup {[DefaultBody EXCEPT !.extra = e] : e \in Extras}
  \cup {[DefaultBody EXCEPT !.extra = e, !.seed = I(3)] : e \in Extras}

\* ------------------------------------------------------------------- state
VARIABLES
  template,        \* handler.template
  workdir_ok,      \* whether handler.workdir is an existing directory
  pc,              \* where each caller's request stands
  request,         \* the TTSRequest of the call
  tmpdir,          \* the name TemporaryDirectory() gave the call, 0 if none
  output_path,
  template_values,
  command,
  returncode,      \* the exit code of the call's external process
  result,          \* what handler.synthesize returned or raised
  response,        \* the HTTP response
  dirs,            \* existing temporary directories: name -> creating caller
  fs,              \* existing files: path -> contents
  wrote,           \* what the call's process last wrote at the call's output_path
  accessed         \* creators of the directories the call looked into or removed

config == <<template, workdir_ok>>
frame == <<request, tmpdir, output_path, template_values, command>>
disk == <<dirs, fs>>
vars == <<template, workdir_ok, pc, request, tmpdir, output_path, template_values,
          command, returncode, result, response, dirs, fs, wrote, accessed>>

B(data) == [t |-> "bytes", v |-> data]

TmpPath(d) == <<"/tmp/tmp">> \o Digits(d)

\* Path(tmpdir) / f"output.{request.output_format}"
OutputPath(d, fmt) == TmpPath(d) \o <<"/output.">> \o fmt

InDir(path, d) ==
  LET pre == TmpPath(d) \o <<"/output.">>
  IN Len(path) >= Len(pre) /\ SubSeq(path, 1, Len(pre)) = pre

\* template_values of synthesize, with request.extra laid over it.
TemplateValues(req, path) ==
  LET base == [text |-> req.text,
               output |-> S(path),
               reference_audio |-> IF Truthy(req.reference_audio)
                                   THEN req.reference_audio ELSE S(<<>>),
               speaker |-> IF Truthy(req.speaker) THEN req.speaker ELSE S(<<>>),
               seed |-> IF req.seed # None THEN req.seed ELSE S(<<>>)]
  IN [k \in DOMAIN base \cup DOMAIN req.extra |->
        IF k \in DOMAIN req.extra THEN S(req.extra[k]) ELSE base[k]]

Init ==
  /\ template \in Templates
  /\ workdir_ok \in BOOLEAN
  /\ pc = [c \in Callers |-> "idle"]
  /\ request = [c \in Callers |-> None]
  /\ tmpdir = [c \in Callers |-> 0]
  /\ output_path = [c \in Callers |-> <<>>]
  /\ template_values = [c \in Callers |-> <<>>]
  /\ command = [c \in Callers |-> <<>>]
  /\ returncode = [c \in Callers |-> None]
  /\ result = [c \in Callers |-> None]
  /\ response = [c \in Callers |-> None]
  /\ dirs = [n \in {} |-> 0]
  /\ fs = [p \in {} |-> <<>>]
  /\ wrote = [c \in Callers |-> None]
  /\ accessed = [c \in Callers |-> {}]

\* ----------------------------------------------------------------- actions
\* POST /synthesize: pydantic builds the TTSRequest.  text is required
\* (Field(...)) and any string is accepted; a body without it is answered
\* 422 and the handler is never called.
Receive(c, body) ==
  /\ pc[c] = "idle"
  /\ IF body.text = None
     THEN /\ pc' = [pc EXCEPT ![c] = "responded"]
          /\ response' = [response EXCEPT ![c] = [status |-> 422]]
          /\ UNCHANGED request
     ELSE /\ pc' = [pc EXCEPT ![c] = "enter"]
          /\ request' = [request EXCEPT ![c] = body]
          /\ UNCHANGED response
  /\ UNCHANGED <<config, tmpdir, output_path, template_values, command,
                 returncode, result, disk, wrote, accessed>>

\* A name chosen without looking at the directories that exist.
AnyName(d) == TRUE

\* tempfile.mkdtemp picks a name that no existing directory has.
FreshName(d) == d \notin DOMAIN dirs

\* with TemporaryDirectory() as tmpdir: output_path = Path(tmpdir) / ...
Enter(c) ==
  /\ pc[c] = "enter"
  /\ \E d \in TmpNames :
       /\ FreshName(d)
       /\ dirs' = [n \in DOMAIN dirs \cup {d} |-> IF n = d THEN c ELSE dirs[n]]
       /\ tmpdir' = [tmpdir EXCEPT ![c] = d]
       /\ output_path' = [output_path EXCEPT ![c] = OutputPath(d, request[c].output_format)]
  /\ pc' = [pc EXCEPT ![c] = "build"]
  /\ UNCHANGED <<config, request, template_values, command, returncode, result,
                 response, fs, wrote, accessed>>

\* TemporaryDirectory.__exit__: the directory and all in it are removed.
RmTree(c) ==
  LET d == tmpdir[c] IN
  /\ dirs' = [n \in DOMAIN dirs \ {d} |-> dirs[n]]
  /\ fs' = [q \in {q \in DOMAIN fs : ~InDir(q, d)} |-> fs[q]]
  /\ accessed' = [accessed EXCEPT ![c] =
                    @ \cup (IF d \in DOMAIN dirs THEN {dirs[d]} ELSE {})]

\* Cleanup on the successful path only.
LeaveLeaky(c, res) ==
  /\ IF res.kind = "ok" THEN RmTree(c) ELSE UNCHANGED <<disk, accessed>>
  /\ result' = [result EXCEPT ![c] = res]
  /\ pc' = [pc EXCEPT ![c] = "returned"]

\* The with block is left, by return or by an exception: synthesize ends
\* with `res` and the temporary directory is removed.
Leave(c, res) ==
  /\ RmTree(c)
  /\ result' = [result EXCEPT ![c] = res]
  /\ pc' = [pc EXCEPT ![c] = "returned"]

TemplateError(key) == [kind |-> "TemplateError", placeholder |-> key]
ConfigurationError == [kind |-> "ConfigurationError"]
ExecutionError(code) == [kind |-> "ExecutionError", code |-> code]
OutputMissingError(path) == [kind |-> "OutputMissingError", path |-> path]
\* An exception synthesize does not catch (it is no HTTPException).
Uncaught(name) == [kind |-> "Uncaught", exception |-> name]

Classified == {"TemplateError", "ConfigurationError", "ExecutionError", "OutputMissingError"}

\* template_values is built and the command rendered; a missing placeholder
\* or an empty command raises.
Render(c) ==
  /\ pc[c] = "build"
  /\ LET values == TemplateValues(request[c], output_path[c])
         r == RenderCommand(template, values)
     IN /\ template_values' = [template_values EXCEPT ![c] = values]
        /\ IF ~r.ok
           THEN Leave(c, TemplateError(r.key)) /\ UNCHANGED command
           ELSE IF r.command = <<>>
           THEN Leave(c, ConfigurationError) /\ UNCHANGED command
           ELSE /\ command' = [command EXCEPT ![c] = r.command]
                /\ pc' = [pc EXCEPT ![c] = "spawn"]
                /\ UNCHANGED <<result, disk, accessed>>
  /\ UNCHANGED <<config, request, tmpdir, output_path, returncode, response, wrote>>

\* subprocess.run(command, shell=True, check=True, cwd=self.workdir) starts
\* the shell; Popen raises FileNotFoundError when cwd is no directory.
Spawn(c) ==
  /\ pc[c] = "spawn"
  /\ IF workdir_ok
     THEN /\ pc' = [pc EXCEPT ![c] = "running"]
          /\ UNCHANGED <<result, disk, accessed>>
     ELSE Leave(c, Uncaught("FileNotFoundError"))
  /\ UNCHANGED <<config, frame, returncode, response, wrote>>

Placeholders(t) == {t[i].name : i \in {j \in DOMAIN t : ~t[j].lit}}

\* The external tool writes `data` to the path its command line names for
\* {output}; a path inside a temporary directory needs the directory.
ProcWrite(c, data) ==
  /\ pc[c] = "running"
  /\ "output" \in Placeholders(template)
  /\ Truthy(template_values[c]["output"])
  /\ LET target == Str(template_values[c]["output"]) IN
     /\ \A d \in TmpNames : InDir(target, d) => d \in DOMAIN dirs
     /\ fs' = [q \in DOMAIN fs \cup {target} |-> IF q = target THEN data ELSE fs[q]]
     /\ wrote' = IF target = output_path[c]
                 THEN [wrote EXCEPT ![c] = B(data)] ELSE wrote
  /\ UNCHANGED <<config, pc, frame, returncode, result, response, dirs, accessed>>

\* Only a positive status taken as a failure.
FailedPositive(rc) == rc > 0

\* check=True: CalledProcessError for every exit status other than 0.
Failed(rc) == rc # 0

\* The external process exits with status rc and subprocess.run returns or
\* raises CalledProcessError, which synthesize turns into the 500 that
\* carries exc.returncode.
RunCompletes(c, rc) ==
  /\ pc[c] = "running"
  /\ returncode' = [returncode EXCEPT ![c] = I(rc)]
  /\ IF Failed(rc)
     THEN Leave(c, ExecutionError(rc))
     ELSE /\ pc' = [pc EXCEPT ![c] = "check"]
          /\ UNCHANGED <<result, disk, accessed>>
  /\ UNCHANGED <<config, frame, response, wrote>>

\* A check of the directory in place of the file.
ExistsDir(path) == \E d \in DOMAIN dirs : InDir(path, d)

\* Path.exists()
Exists(path) == path \in DOMAIN fs

\* if not output_path.exists(): raise
CheckOutput(c) ==
  /\ pc[c] = "check"
  /\ IF Exists(output_path[c])
     THEN /\ pc' = [pc EXCEPT ![c] = "read"]
          /\ accessed' = [accessed EXCEPT ![c] =
               @ \cup (IF tmpdir[c] \in DOMAIN dirs THEN {dirs[tmpdir[c]]} ELSE {})]
          /\ UNCHANGED <<result, disk>>
     ELSE Leave(c, OutputMissingError(output_path[c]))
  /\ UNCHANGED <<config, frame, returncode, response, wrote>>

\* A read of the first byte only.
ReadFirstByte(path) == IF fs[path] = <<>> THEN <<>> ELSE <<fs[path][1]>>

\* Path.read_bytes(): the whole file.
ReadBytes(path) == fs[path]

\* return output_path.read_bytes()
ReadOutput(c) ==
  /\ pc[c] = "read"
  /\ IF output_path[c] \in DOMAIN fs
     THEN Leave(c, [kind |-> "ok", bytes |-> ReadBytes(output_path[c])])
     ELSE Leave(c, Uncaught("FileNotFoundError"))
  /\ UNCHANGED <<config, frame, returncode, response, wrote>>

\* The /synthesize endpoint: the 200 body built from the audio bytes, or
\* the 500 FastAPI makes of the HTTPException (with its detail) or of any
\* other exception (without one).
Payload(audio_bytes, fmt) ==
  [status |-> 200, audio_base64 |-> B64Encode(audio_bytes), format |-> fmt,
   bytes |-> Len(audio_bytes)]

Respond(c) ==
  /\ pc[c] = "returned"
  /\ response' = [response EXCEPT ![c] =
       IF result[c].kind = "ok"
       THEN Payload(result[c].bytes, request[c].output_format)
       ELSE IF result[c].kind \in Classified
       THEN [status |-> 500, detail |-> result[c]]
       ELSE [status |-> 500, detail |-> None]]
  /\ pc' = [pc EXCEPT ![c] = "responded"]
  /\ UNCHANGED <<config, frame, returncode, result, disk, wrote, accessed>>

\* The response is sent; the request and everything of it is dropped.
Finish(c) ==
  /\ pc[c] = "responded"
  /\ pc' = [pc EXCEPT ![c] = "idle"]
  /\ request' = [request EXCEPT ![c] = None]
  /\ tmpdir' = [tmpdir EXCEPT ![c] = 0]
  /\ output_path' = [output_path EXCEPT ![c] = <<>>]
  /\ template_values' = [template_values EXCEPT ![c] = <<>>]
  /\ command' = [command EXCEPT ![c] = <<>>]
  /\ returncode' = [returncode EXCEPT ![c] = None]
  /\ result' = [result EXCEPT ![c] = None]
  /\ response' = [response EXCEPT ![c] = None]
  /\ wrote' = [wrote EXCEPT ![c] = None]
  /\ accessed' = [accessed EXCEPT ![c] = {}]
  /\ UNCHANGED <<config, disk>>

\* ---------------------------------------------------------- specifications
SmallData == {<<>>, <<77, 250>>}

\* Two callers at once, each sending the same few requests.
Next ==
  \E c \in Callers :
    \/ \E body \in SmallBodies : Receive(c, body)
    \/ Enter(c)
    \/ Render(c)
    \/ Spawn(c)
    \/ \E data \in SmallData : ProcWrite(c, data)
    \/ \E rc \in ExitCodes : RunCompletes(c, rc)
    \/ CheckOutput(c)
    \/ ReadOutput(c)
    \/ Respond(c)
    \/ Finish(c)

Spec == Init /\ [][Next]_vars

\* One caller, every request of RichBodies.
NextRender ==
  \/ \E body \in RichBodies : Receive(1, body)
  \/ Enter(1)
  \/ Render(1)
  \/ Spawn(1)
  \/ \E data \in SmallData : ProcWrite(1, data)
  \/ \E rc \in {0, 1} : RunCompletes(1, rc)
  \/ CheckOutput(1)
  \/ ReadOutput(1)
  \/ Respond(1)
  \/ Finish(1)

SpecRender == Init /\ [][NextRender]_vars

AudioBodies ==
  SmallBodies \cup {[DefaultBody EXCEPT !.extra = [output |-> <<"/elsewhere/out.wav">>]],
                    [DefaultBody EXCEPT !.output_format = <<"mp3">>]}

\* One caller, a tool that writes any audio and exits with any status.
NextAudio ==
  \/ \E body \in AudioBodies : Receive(1, body)
  \/ Enter(1)
  \/ Render(1)
  \/ Spawn(1)
  \/ \E data \in BytesUpTo(MaxBytes) : ProcWrite(1, data)
  \/ \E rc \in ExitCodes : RunCompletes(1, rc)
  \/ CheckOutput(1)
  \/ ReadOutput(1)
  \/ Respond(1)
  \/ Finish(1)

SpecAudio == Init /\ [][NextAudio]_vars

\* ------------------------------------------------------------------ claims
HasMeta(s) == \E i \in DOMAIN s : s[i] \in ShellSpecial

\* The words of literal template text: split at spaces.
RECURSIVE Words(_, _)
Words(s, cur) ==
  IF s = <<>> THEN (IF cur = <<>> THEN <<>> ELSE <<cur>>)
  ELSE IF Head(s) = SP
       THEN (IF cur = <<>> THEN <<>> ELSE <<cur>>) \o Words(Tail(s), <<>>)
       ELSE Words(Tail(s), Append(cur, Head(s)))

\* Every field of the template stands alone as a word, between spaces or
\* the ends of the template, and the literal text holds no quote, ';' or '$'.
PlainWords(t) ==
  \A i \in DOMAIN t :
    IF t[i].lit
    THEN \A j \in DOMAIN t[i].s : t[i].s[j] \notin {SQ, DQ, SEMI, DOLLAR}
    ELSE /\ i = 1 \/ (t[i - 1].lit /\ t[i - 1].s # <<>>
                      /\ t[i - 1].s[Len(t[i - 1].s)] = SP)
         /\ i = Len(t) \/ (t[i + 1].lit /\ t[i + 1].s # <<>> /\ t[i + 1].s[1] = SP)

\* The argument vector the template and the values stand for: the literal
\* words, and each non-empty value as one word.
RECURSIVE ExpectedWords(_, _)
ExpectedWords(t, values) ==
  IF t = <<>> THEN <<>>
  ELSE (IF Head(t).lit THEN Words(Head(t).s, <<>>)
        ELSE IF Truthy(values[Head(t).name]) THEN <<Str(values[Head(t).name])>>
        ELSE <<>>)
       \o ExpectedWords(Tail(t), values)

\* C1 as stated: every non-empty value with a shell metacharacter that the
\* template places in the command is read by the shell as one literal word,
\* and the command line holds no separator, expansion or open quote.
C1_AsStated ==
  \A c \in Callers :
    command[c] # <<>> =>
      \A k \in Placeholders(template) :
        (Truthy(template_values[c][k]) /\ HasMeta(Str(template_values[c][k]))) =>
          /\ ~ShellRead(command[c]).active
          /\ Str(template_values[c][k]) \in Range(ShellRead(command[c]).words)

\* C1, amended: when every field of the template stands alone as an unquoted
\* word, the shell reads the rendered command as exactly the literal words of
\* the template with each non-empty value as one literal word, and the line
\* holds no separator, expansion or open quote.
C1_QuotedValuesAreSingleWords ==
  \A c \in Callers :
    (command[c] # <<>> /\ PlainWords(template)) =>
      /\ ~ShellRead(command[c]).active
      /\ ShellRead(command[c]).words = ExpectedWords(template, template_values[c])

C1_Witness ==
  \E c \in Callers :
    /\ template = DefaultTemplate
    /\ pc[c] = "running"
    /\ request[c].text = S(<<SQ, DOLLAR>>)

\* The placeholders of the template that neither the built-ins nor
\* request.extra supply.
Missing(c) == Placeholders(template) \ (BuiltIns \cup DOMAIN request[c].extra)

\* C2: when the template references a placeholder that is neither a built-in
\* nor a key of extra, the call ends with the missing-placeholder error that
\* names such a placeholder, no command is rendered and no process is spawned.
C2_MissingPlaceholderFails ==
  \A c \in Callers :
    (request[c] # None /\ pc[c] \notin {"enter", "build"} /\ Missing(c) # {}) =>
      /\ pc[c] \in {"returned", "responded"}
      /\ result[c].kind = "TemplateError"
      /\ result[c].placeholder \in Missing(c)
      /\ command[c] = <<>>
      /\ returncode[c] = None
      /\ pc[c] = "responded" => response[c] = [status |-> 500, detail |-> result[c]]

C2_Witness ==
  \E c \in Callers :
    /\ pc[c] = "responded"
    /\ request[c] # None
    /\ DOMAIN request[c].extra = {"lang"}
    /\ response[c] = [status |-> 500, detail |-> TemplateError("voice")]

\* C3: whenever the external process exited with a status N other than 0,
\* the call ends with the execution error carrying N, the response is the
\* 500 with that detail, and no audio is returned, whatever the process wrote.
C3_NonZeroExitFails ==
  \A c \in Callers :
    (returncode[c] # None /\ returncode[c].v # 0) =>
      /\ pc[c] \in {"returned", "responded"}
      /\ result[c] = ExecutionError(returncode[c].v)
      /\ pc[c] = "responded" =>
           response[c] = [status |-> 500, detail |-> ExecutionError(returncode[c].v)]

C3_Witness ==
  \E c \in Callers :
    /\ pc[c] = "responded"
    /\ returncode[c] = I(2)
    /\ wrote[c] # None
    /\ response[c].detail = ExecutionError(2)

\* C4: when the process exited 0 and wrote nothing at the computed output
\* path, the call ends with the output-missing error carrying that path, the
\* response is the 500 with that detail, and no audio is returned.
C4_MissingOutputFails ==
  \A c \in Callers :
    (returncode[c] = I(0) /\ wrote[c] = None) =>
      \/ pc[c] = "check"
      \/ /\ pc[c] \in {"returned", "responded"}
         /\ result[c] = OutputMissingError(output_path[c])
         /\ result[c].path = OutputPath(tmpdir[c], request[c].output_format)
         /\ pc[c] = "responded" => response[c] = [status |-> 500, detail |-> result[c]]

C4_Witness ==
  \E c \in Callers :
    /\ pc[c] = "responded"
    /\ returncode[c] = I(0)
    /\ wrote[c] = None
    /\ response[c].detail.kind = "OutputMissingError"

\* C5: once a call has returned or raised, no temporary directory that it
\* created exists; when no call is in progress, none exists at all.
C5_TempDirRemoved ==
  \A c \in Callers :
    pc[c] \in {"idle", "returned", "responded"} =>
      \A n \in DOMAIN dirs : dirs[n] # c

C5_Witness ==
  \E c \in Callers :
    /\ pc[c] = "returned"
    /\ result[c].kind = "ExecutionError"
    /\ wrote[c] # None
    /\ \E o \in Callers \ {c} : pc[o] = "running"

InProgress(c) == pc[c] \in {"build", "spawn", "running", "check", "read"}

\* C6: two calls in progress at once have different temporary directories
\* and output paths, and a call looks into and removes only the directory
\* it created itself.
C6_CallsIsolated ==
  /\ \A c \in Callers : accessed[c] \subseteq {c}
  /\ \A c, o \in Callers :
       (c # o /\ InProgress(c) /\ InProgress(o)) =>
         /\ tmpdir[c] # tmpdir[o]
         /\ output_path[c] # output_path[o]
         /\ tmpdir[c] \in DOMAIN dirs /\ dirs[tmpdir[c]] = c

C6_Witness ==
  /\ \A c \in Callers : pc[c] = "read" /\ wrote[c] # None
  /\ request[1] = request[2]

\* C7 as stated: every answered synthesize call either returned the audio
\* (200) or failed with one of the four classified errors, reported as a
\* 500 with that error as its detail.
C7_AsStated ==
  \A c \in Callers :
    (pc[c] = "responded" /\ request[c] # None) =>
      \/ response[c].status = 200 /\ result[c].kind = "ok"
      \/ /\ response[c].status = 500
         /\ result[c].kind \in Classified
         /\ response[c].detail = result[c]

\* The text that replaced {seed} in a command rendered from the default
\* template, whose last field it is.
RECURSIVE AfterSeedFlag(_)
AfterSeedFlag(cmd) ==
  IF cmd = <<>> THEN <<>>
  ELSE IF Head(cmd) = "--seed" THEN LStrip(Tail(cmd))
  ELSE AfterSeedFlag(Tail(cmd))

\* C8 as stated: without an extra override of seed, {seed} is replaced by
\* the empty string exactly when the request has no seed, and by the seed's
\* decimal form otherwise.
C8_AsStated ==
  \A c \in Callers :
    (template = DefaultTemplate /\ command[c] # <<>>
       /\ "seed" \notin DOMAIN request[c].extra) =>
      /\ AfterSeedFlag(command[c]) = <<>> <=> request[c].seed = None
      /\ request[c].seed # None => AfterSeedFlag(command[c]) = Str(request[c].seed)

\* base64 decoding, as the client of the endpoint does it.
RECURSIVE B64Decode(_)
B64Decode(sym) ==
  IF Len(sym) < 4 THEN <<>>
  ELSE LET a == sym[1]
           b == sym[2]
           rest == SubSeq(sym, 5, Len(sym))
       IN IF sym[3] = B64Pad THEN <<a * 4 + b \div 16>>
          ELSE IF sym[4] = B64Pad
          THEN <<a * 4 + b \div 16, (b % 16) * 16 + sym[3] \div 4>>
          ELSE <<a * 4 + b \div 16, (b % 16) * 16 + sym[3] \div 4,
                 (sym[3] % 4) * 64 + sym[4]>> \o B64Decode(rest)

C10_AsStated ==
  \A c \in Callers :
    (request[c] # None /\ (command[c] # <<>> \/ pc[c] = "running")) =>
      request[c].text # S(<<>>)
====
